---- MODULE Spec2Model ----
(***************************************************************************)
(* json-describe: schema inference over one JSON document.                 *)
(*                                                                         *)
(* The module models src/main.rs:                                          *)
(*   - Token / Value, Value::from_token, Value::sort_key                   *)
(*   - Value::merge_with.  HashSet iteration order is unspecified (the     *)
(*     hasher is randomly seeded per process), so merge_with is modelled   *)
(*     as the SET of results the call can return, one per iteration order. *)
(*   - the Debug rendering of a Value, as text                             *)
(*   - parse_value / describe as a call-stack machine fed one token at a   *)
(*     time by the lexer (specification Spec)                              *)
(*   - a merge bench that builds schema nodes the way parsing builds them  *)
(*     and applies merge_with to them (specification SpecMerge)            *)
(***************************************************************************)
EXTENDS Integers, Sequences, FiniteSets, TLC

VARIABLES
    stack,      \* parser: activations of parse_value, innermost last
    ret,        \* parser: value returned by the activation that just ended
    status,     \* parser: "running", "done" (schema printed) or "panic"
    out,        \* parser: text written to standard output
    consumed,   \* parser: tokens pulled from the lexer so far
    leftover,   \* parser: the lexer still held a token when describe returned
    a,          \* bench: left operand (self)
    b,          \* bench: right operand (other)
    r,          \* bench: result of the last merge_with(a, b)
    fa,         \* bench: a is the value of one parsed JSON instance
    fb,         \* bench: b is the value of one parsed JSON instance
    ops         \* bench: number of bench steps taken

vars == <<stack, ret, status, out, consumed, leftover, a, b, r, fa, fb, ops>>
parserVars == <<stack, ret, status, out, consumed, leftover>>
benchVars == <<a, b, r, fa, fb, ops>>

-----------------------------------------------------------------------------
(* Bounds *)

MaxTokens == 11
MaxDepth == 2
MaxOps == 4

(* Program constant *)
MAX_EXAMPLES == 4

-----------------------------------------------------------------------------
(* Literal alphabets.  A string token carries its text with the quotes.    *)

NumberTexts == {"1", "2", "3", "4", "5"}
StringTexts == {"\"a\"", "\"b\""}

\* byte order of the literal texts (Vec<&String>::sort)
TextOrder == <<"\"a\"", "\"b\"", "1", "2", "3", "4", "5">>
\* byte order of the object keys
KeyOrder == <<"a", "b">>

Min(x, y) == IF x <= y THEN x ELSE y
Max(x, y) == IF x >= y THEN x ELSE y

-----------------------------------------------------------------------------
(* Token *)

Marker(k) == [kind |-> k]
TString(s) == [kind |-> "String", s |-> s]
TNumber(s) == [kind |-> "Number", s |-> s]

Token ==
    {Marker(k) : k \in {"CurlyOpen", "CurlyClose", "BracketOpen",
                        "BracketClose", "Colon", "Comma", "Boolean", "Null"}}
    \cup {TString(s) : s \in StringTexts}
    \cup {TNumber(s) : s \in NumberTexts}

-----------------------------------------------------------------------------
(* Value *)

VString(ex, more) == [t |-> "String", ex |-> ex, more |-> more]
VNumber(ex, more) == [t |-> "Number", ex |-> ex, more |-> more]
VBoolean == [t |-> "Boolean"]
VNull == [t |-> "Null"]
VObject(pairs) == [t |-> "Object", pairs |-> pairs]
VArray(values, min, max) == [t |-> "Array", vals |-> values, min |-> min, max |-> max]

Err == [t |-> "Err"]
None == [t |-> "None"]
Panic == [t |-> "Panic"]

NoPairs == [k \in {} |-> [vals |-> <<>>, missing |-> FALSE]]

IsScalar(v) == v.t \in {"String", "Number"}

from_token(kind) ==
    CASE kind.kind = "String" -> VString({kind.s}, FALSE)
      [] kind.kind = "Number" -> VNumber({kind.s}, FALSE)
      [] kind.kind = "Boolean" -> VBoolean
      [] kind.kind = "Null" -> VNull
      [] kind.kind = "CurlyOpen" -> VObject(NoPairs)
      [] kind.kind = "BracketOpen" -> VArray(<<>>, 0, 0)
      [] OTHER -> Panic

sort_key(v) ==
    CASE v.t = "Null" -> 1
      [] v.t = "Boolean" -> 2
      [] v.t = "Number" -> 3
      [] v.t = "String" -> 4
      [] v.t = "Array" -> 5
      [] v.t = "Object" -> 6

-----------------------------------------------------------------------------
(* Value::merge_with *)

RECURSIVE MergeExamples_NoContains(_, _, _)
\* variant: at the cap the flag is raised without the `contains` test
MergeExamples_NoContains(examples, more, ex2) ==
    IF ex2 = {} THEN {<<examples, more>>}
    ELSE UNION {IF Cardinality(examples) >= MAX_EXAMPLES
                THEN {<<examples, TRUE>>}
                ELSE MergeExamples_NoContains(examples \cup {ex}, more, ex2 \ {ex}) :
                    ex \in ex2}

RECURSIVE MergeExamples(_, _, _)
\* `for ex in ex2 { ... }` (lines 107-115) with ex2 the examples not yet
\* visited.  A HashSet is visited in an unspecified order: any element of
\* ex2 can come next.  At the cap the loop breaks on the element it is at.
MergeExamples(examples, more, ex2) ==
    IF ex2 = {} THEN {<<examples, more>>}
    ELSE UNION {IF Cardinality(examples) >= MAX_EXAMPLES
                THEN {<<examples, more \/ (ex \notin examples)>>}
                ELSE MergeExamples(examples \cup {ex}, more, ex2 \ {ex}) :
                    ex \in ex2}

\* String/String and Number/Number arm: other's flag is not read
MergeScalars(self, other) ==
    {[t |-> self.t, ex |-> e[1], more |-> e[2]] :
        e \in MergeExamples(self.ex, self.more, other.ex)}

RECURSIVE merge_with(_, _)
RECURSIVE MergeValues(_, _)

RECURSIVE MergeValueFrom(_, _, _)
\* `for v in new_values.iter_mut()` from position j: the first alternative
\* that merges is replaced, and the value is pushed if none does
MergeValueFrom(new_values, other_value, j) ==
    IF j > Len(new_values) THEN {Append(new_values, other_value)}
    ELSE LET merged == merge_with(new_values[j], other_value)
         IN  IF Err \notin merged
             THEN {[new_values EXCEPT ![j] = merged_value] : merged_value \in merged}
             ELSE MergeValueFrom(new_values, other_value, j + 1)

\* variant: the value is pushed without trying the existing alternatives
MergeValue_AlwaysPush(new_values, other_value) ==
    {Append(new_values, other_value)}

\* the reconciliation of one value with the alternatives (lines 141-151,
\* 165-175, 329-339)
MergeValue(new_values, other_value) ==
    MergeValueFrom(new_values, other_value, 1)

\* `for other_value in other_values { ... }`
MergeValues(new_values, other_values) ==
    IF other_values = <<>> THEN {new_values}
    ELSE UNION {MergeValues(nv, Tail(other_values)) :
                   nv \in MergeValue(new_values, Head(other_values))}

\* body of `for (k, (in_self, in_other)) in all_keys`
MergeField(k, self_pairs, other_pairs) ==
    IF k \in DOMAIN self_pairs /\ k \in DOMAIN other_pairs
    THEN {[vals |-> nv, missing |-> self_pairs[k].missing] :
             nv \in MergeValues(self_pairs[k].vals, other_pairs[k].vals)}
    ELSE LET source == IF k \in DOMAIN self_pairs THEN self_pairs ELSE other_pairs
         IN  {[vals |-> source[k].vals, missing |-> TRUE]}

RECURSIVE MergePairs(_, _, _)
\* `for (k, ..) in all_keys { ...; new_pairs.insert(k, ..) }` over keys
MergePairs(keys, self_pairs, other_pairs) ==
    IF keys = {} THEN {NoPairs}
    ELSE LET k == CHOOSE x \in keys : TRUE
             fields == MergeField(k, self_pairs, other_pairs)
             rest == MergePairs(keys \ {k}, self_pairs, other_pairs)
         IN  {[j \in DOMAIN new_pairs \cup {k} |->
                  IF j = k THEN field ELSE new_pairs[j]] :
                     new_pairs \in rest, field \in fields}

MergeObjects(self_pairs, other_pairs) ==
    {VObject(new_pairs) :
        new_pairs \in MergePairs(DOMAIN self_pairs \cup DOMAIN other_pairs,
                                 self_pairs, other_pairs)}

\* variant: the upper length is taken from self alone
MergeArrays_KeepSelfMax(self, other) ==
    {VArray(nv, Min(self.min, other.min), self.max) :
        nv \in MergeValues(self.vals, other.vals)}

MergeArrays(self, other) ==
    {VArray(nv, Min(self.min, other.min), Max(self.max, other.max)) :
        nv \in MergeValues(self.vals, other.vals)}

\* variant: the Boolean/Boolean and Null/Null arm is missing
merge_with_NoNullaryArm(self, other) ==
    CASE IsScalar(self) /\ self.t = other.t -> MergeScalars(self, other)
      [] self.t = "Object" /\ other.t = "Object" -> MergeObjects(self.pairs, other.pairs)
      [] self.t = "Array" /\ other.t = "Array" -> MergeArrays(self, other)
      [] OTHER -> {Err}

merge_with(self, other) ==
    CASE IsScalar(self) /\ self.t = other.t -> MergeScalars(self, other)
      [] self.t \in {"Boolean", "Null"} /\ self.t = other.t -> {self}
      [] self.t = "Object" /\ other.t = "Object" -> MergeObjects(self.pairs, other.pairs)
      [] self.t = "Array" /\ other.t = "Array" -> MergeArrays(self, other)
      [] OTHER -> {Err}

-----------------------------------------------------------------------------
(* impl fmt::Debug for Value, ValuesFormat *)

RECURSIVE Join(_, _)
Join(strs, sep) ==
    IF strs = <<>> THEN ""
    ELSE IF Len(strs) = 1 THEN strs[1]
    ELSE strs[1] \o sep \o Join(Tail(strs), sep)

\* examples.sort()
SortedExamples(ex) ==
    LET In(s) == s \in ex IN SelectSeq(TextOrder, In)

\* pairs.sort_unstable_by(key)
SortedKeys(pairs) ==
    LET In(k) == k \in DOMAIN pairs IN SelectSeq(KeyOrder, In)

RECURSIVE SortByKey(_)
\* values.sort_unstable_by_key(sort_key), as an insertion sort
SortByKey(values) ==
    IF Len(values) <= 1 THEN values
    ELSE LET rest == SortByKey(SubSeq(values, 1, Len(values) - 1))
             v == values[Len(values)]
             before == {i \in 1..Len(rest) : sort_key(rest[i]) <= sort_key(v)}
             n == Cardinality(before)
         IN  SubSeq(rest, 1, n) \o <<v>> \o SubSeq(rest, n + 1, Len(rest))

RECURSIVE Render(_)

RenderAll(values) == [i \in 1..Len(values) |-> Render(values[i])]

ValuesFormat(values, missing) ==
    (IF missing THEN "optional " ELSE "")
    \o (IF Len(values) = 1 THEN Render(values[1])
        ELSE "(" \o Join(RenderAll(values), ", ") \o ")")

Render(v) ==
    CASE IsScalar(v) ->
            v.t \o " (" \o Join(SortedExamples(v.ex), ", ")
                \o (IF v.more THEN ", ..." ELSE "") \o ")"
      [] v.t = "Boolean" -> "Boolean"
      [] v.t = "Null" -> "null"
      [] v.t = "Object" ->
            LET keys == SortedKeys(v.pairs)
                entry(i) == "\"" \o keys[i] \o "\": "
                            \o ValuesFormat(v.pairs[keys[i]].vals, v.pairs[keys[i]].missing)
            IN  "{" \o Join([i \in 1..Len(keys) |-> entry(i)], ", ") \o "}"
      [] v.t = "Array" ->
            (IF v.min = v.max
             THEN "Array (len " \o ToString(v.min) \o ") "
             ELSE "Array (len " \o ToString(v.min) \o ".." \o ToString(v.max) \o ") ")
            \o "[" \o Join(RenderAll(SortByKey(v.vals)), ", ") \o "]"

-----------------------------------------------------------------------------
(* parse_value and describe: the call stack of parse_value, one frame per  *)
(* activation that is building an object or an array.                      *)
(*   pc = "first"  after the opening token (lines 299, 325)                *)
(*   pc = "key"    after a comma in an object (line 301)                   *)
(*   pc = "colon"  after a key (line 307)                                  *)
(*   pc = "value"  the recursive parse_value call (lines 310, 327)         *)
(*   pc = "next"   after a member (lines 312, 340)                         *)

\* the tokens the lexer delivers to the parser
Lexicon ==
    {Marker(k) : k \in {"CurlyOpen", "CurlyClose", "BracketOpen",
                        "BracketClose", "Colon", "Comma", "Boolean", "Null"}}
    \cup {TString("\"a\""), TNumber("1")}

\* key[1..key.len() - 1]
StripQuotes(s) ==
    CASE s = "\"a\"" -> "a"
      [] s = "\"b\"" -> "b"

Frame(value) == [value |-> value, n |-> 0, key |-> "", pc |-> "first"]

Top == stack[Len(stack)]
SetTop(f) == [stack EXCEPT ![Len(stack)] = f]
Pop == SubSeq(stack, 1, Len(stack) - 1)

Running == status = "running" /\ ret = None
InObject == stack # <<>> /\ Top.value.t = "Object"
InArray == stack # <<>> /\ Top.value.t = "Array"

\* the next token is the first token of a parse_value call (line 296)
AtValueStart ==
    \/ stack = <<>> /\ consumed = <<>>
    \/ InObject /\ Top.pc = "value"
    \/ InArray /\ Top.pc \in {"first", "value"}

Pull(tok) ==
    /\ Len(consumed) < MaxTokens
    /\ consumed' = Append(consumed, tok)

Abort ==
    /\ status' = "panic"
    /\ UNCHANGED <<stack, ret, out, leftover>>

Init ==
    /\ stack = <<>>
    /\ ret = None
    /\ status = "running"
    /\ out = ""
    /\ consumed = <<>>
    /\ leftover = FALSE
    /\ a = None /\ b = None /\ r = None
    /\ fa = FALSE /\ fb = FALSE /\ ops = 0

\* a scalar, boolean or null token is a whole value (lines 296, 350-352)
ParseLeaf ==
    \E tok \in Lexicon :
        /\ Running /\ AtValueStart
        /\ tok.kind \in {"String", "Number", "Boolean", "Null"}
        /\ Pull(tok)
        /\ ret' = from_token(tok)
        /\ UNCHANGED <<stack, status, out, leftover, benchVars>>

\* `{` or `[` starts an activation that builds a container (lines 296-298, 323)
ParseOpen ==
    \E tok \in Lexicon :
        /\ Running /\ AtValueStart
        /\ tok.kind \in {"CurlyOpen", "BracketOpen"}
        /\ Len(stack) < MaxDepth
        /\ Pull(tok)
        /\ stack' = Append(stack, Frame(from_token(tok)))
        /\ UNCHANGED <<ret, status, out, leftover, benchVars>>

\* from_token panics on a closing or punctuation token (line 86); `]` right
\* after `[` is taken by expect (line 325) and is not passed to from_token
ParseBadStart ==
    \E tok \in Lexicon :
        /\ Running /\ AtValueStart
        /\ from_token(tok) = Panic
        /\ ~(InArray /\ Top.pc = "first" /\ tok.kind = "BracketClose")
        /\ Pull(tok)
        /\ Abort
        /\ UNCHANGED benchVars

\* variant: the contains_key test of line 304 is missing
ObjectKey_NoDuplicateCheck ==
    \E tok \in Lexicon :
        /\ Running /\ InObject /\ Top.pc \in {"first", "key"}
        /\ Pull(tok)
        /\ IF Top.pc = "first" /\ tok.kind = "CurlyClose"
           THEN /\ ret' = Top.value
                /\ stack' = Pop
                /\ UNCHANGED <<status, out, leftover>>
           ELSE IF tok.kind = "String"
           THEN /\ stack' = SetTop([Top EXCEPT !.key = StripQuotes(tok.s), !.pc = "colon"])
                /\ UNCHANGED <<ret, status, out, leftover>>
           ELSE Abort
        /\ UNCHANGED benchVars

\* lines 299, 301-306, 318: close of an empty object, or a key
ObjectKey ==
    \E tok \in Lexicon :
        /\ Running /\ InObject /\ Top.pc \in {"first", "key"}
        /\ Pull(tok)
        /\ IF Top.pc = "first" /\ tok.kind = "CurlyClose"
           THEN /\ ret' = Top.value
                /\ stack' = Pop
                /\ UNCHANGED <<status, out, leftover>>
           ELSE IF tok.kind = "String" /\ StripQuotes(tok.s) \notin DOMAIN Top.value.pairs
           THEN /\ stack' = SetTop([Top EXCEPT !.key = StripQuotes(tok.s), !.pc = "colon"])
                /\ UNCHANGED <<ret, status, out, leftover>>
           ELSE Abort
        /\ UNCHANGED benchVars

\* lines 307-309
ObjectColon ==
    \E tok \in Lexicon :
        /\ Running /\ InObject /\ Top.pc = "colon"
        /\ Pull(tok)
        /\ IF tok.kind = "Colon"
           THEN /\ stack' = SetTop([Top EXCEPT !.pc = "value"])
                /\ UNCHANGED <<ret, status, out, leftover>>
           ELSE Abort
        /\ UNCHANGED benchVars

\* lines 312-316
ObjectNext ==
    \E tok \in Lexicon :
        /\ Running /\ InObject /\ Top.pc = "next"
        /\ Pull(tok)
        /\ CASE tok.kind = "Comma" ->
                    /\ stack' = SetTop([Top EXCEPT !.pc = "key"])
                    /\ UNCHANGED <<ret, status, out, leftover>>
             [] tok.kind = "CurlyClose" ->
                    /\ ret' = Top.value
                    /\ stack' = Pop
                    /\ UNCHANGED <<status, out, leftover>>
             [] OTHER -> Abort
        /\ UNCHANGED benchVars

\* line 325: `]` right after `[`; lines 347-348 with n = 0
ArrayEmpty ==
    /\ Running /\ InArray /\ Top.pc = "first"
    /\ Pull(Marker("BracketClose"))
    /\ ret' = VArray(Top.value.vals, Top.n, Top.n)
    /\ stack' = Pop
    /\ UNCHANGED <<status, out, leftover, benchVars>>

\* lines 340-344, 347-348
ArrayNext ==
    \E tok \in Lexicon :
        /\ Running /\ InArray /\ Top.pc = "next"
        /\ Pull(tok)
        /\ CASE tok.kind = "Comma" ->
                    /\ stack' = SetTop([Top EXCEPT !.pc = "value"])
                    /\ UNCHANGED <<ret, status, out, leftover>>
             [] tok.kind = "BracketClose" ->
                    /\ ret' = VArray(Top.value.vals, Top.n, Top.n)
                    /\ stack' = Pop
                    /\ UNCHANGED <<status, out, leftover>>
             [] OTHER -> Abort
        /\ UNCHANGED benchVars

\* the lexer is exhausted where a token is required: unwrap of None
\* (lines 296, 301, 312, 340) or expect fails (line 307)
EndOfInput ==
    /\ Running
    /\ Abort
    /\ UNCHANGED <<consumed, benchVars>>

\* line 311: the member's value comes back to the object activation
ReturnToObject ==
    /\ status = "running" /\ ret # None
    /\ InObject
    /\ stack' = SetTop([Top EXCEPT
            !.value = VObject([k \in DOMAIN Top.value.pairs \cup {Top.key} |->
                                 IF k = Top.key
                                 THEN [vals |-> <<ret>>, missing |-> FALSE]
                                 ELSE Top.value.pairs[k]]),
            !.pc = "next"])
    /\ ret' = None
    /\ UNCHANGED <<status, out, consumed, leftover, benchVars>>

\* lines 328-339: the element's value comes back to the array activation
ReturnToArray ==
    /\ status = "running" /\ ret # None
    /\ InArray
    /\ \E values \in MergeValue(Top.value.vals, ret) :
          stack' = SetTop([Top EXCEPT
                !.value = VArray(values, 0, 0),
                !.n = Top.n + 1,
                !.pc = "next"])
    /\ ret' = None
    /\ UNCHANGED <<status, out, consumed, leftover, benchVars>>

\* lines 357-358: the top-level value comes back to describe, which prints
\* it; the lexer is dropped without being asked for another token
ReturnToDescribe ==
    \E unread \in BOOLEAN :
        /\ status = "running" /\ ret # None
        /\ stack = <<>>
        /\ status' = "done"
        /\ out' = Render(ret) \o "\n"
        /\ leftover' = unread
        /\ UNCHANGED <<stack, ret, consumed, benchVars>>

Next ==
    \/ ParseLeaf
    \/ ParseOpen
    \/ ParseBadStart
    \/ ObjectKey
    \/ ObjectColon
    \/ ObjectNext
    \/ ArrayEmpty
    \/ ArrayNext
    \/ EndOfInput
    \/ ReturnToObject
    \/ ReturnToArray
    \/ ReturnToDescribe

Spec == Init /\ [][Next]_vars

-----------------------------------------------------------------------------
(* Merge bench.  The operands are built the way a run of the parser builds *)
(* the nodes it hands to merge_with:                                       *)
(*   - the value of a leaf token (from_token);                             *)
(*   - the alternative the array loop holds while it parses                *)
(*     `[1, 2, 3, 4, 5]` (Seeds);                                          *)
(*   - a parsed object or array around parsed values (fa, fb say that the  *)
(*     register holds the value of one parsed instance);                   *)
(*   - the result of an earlier merge_with.                                *)
(* merge_with descends into the alternatives of arrays and object fields,  *)
(* so every such node is an operand of some call in some run:              *)
(* merge_with([x], [y]) calls merge_with(x, y).                            *)

Leaves == {from_token(tok) : tok \in Token} \ {Panic}

RECURSIVE LoopValues(_, _)
\* the values `*v = merged_value` gives v while the array loop takes the
\* number tokens texts one after the other
LoopValues(v, texts) ==
    IF texts = <<>> THEN {v}
    ELSE {v} \cup UNION {LoopValues(merged_value, Tail(texts)) :
                            merged_value \in merge_with(v, from_token(TNumber(Head(texts))))}

\* the leaves, and what the loop holds while parsing [1, 2, 3, 4, 5]
Seeds == Leaves \cup LoopValues(from_token(TNumber("1")), <<"2", "3", "4", "5">>)

Ok(x) == x \notin {None, Err}

Step == ops < MaxOps /\ ops' = ops + 1

InitMerge ==
    /\ stack = <<>> /\ ret = None /\ status = "running"
    /\ out = "" /\ consumed = <<>> /\ leftover = FALSE
    /\ a \in Seeds /\ b \in Seeds
    /\ fa = (a \in Leaves) /\ fb = (b \in Leaves)
    /\ r = None
    /\ ops = 0

\* a.merge_with(&b)
Merge ==
    /\ Step
    /\ r' \in merge_with(a, b)
    /\ UNCHANGED <<a, b, fa, fb, parserVars>>

\* `*v = merged_value`: the result replaces the left operand
KeepSelf ==
    /\ Step /\ Ok(r)
    /\ a' = r /\ fa' = FALSE /\ r' = None
    /\ UNCHANGED <<b, fb, parserVars>>

\* the result is the right operand of a later call
KeepOther ==
    /\ Step /\ Ok(r)
    /\ b' = r /\ fb' = FALSE /\ r' = None
    /\ UNCHANGED <<a, fa, parserVars>>

\* the two nodes meet in the other order
Swap ==
    /\ Step
    /\ a' = b /\ b' = a /\ fa' = fb /\ fb' = fa /\ r' = None
    /\ UNCHANGED parserVars

\* the same node on both sides
Clone ==
    /\ Step
    /\ b' = a /\ fb' = fa /\ r' = None
    /\ UNCHANGED <<a, fa, parserVars>>

\* `[x]`: an array of one element around a
WrapArray ==
    /\ Step
    /\ a' = VArray(<<a>>, 1, 1) /\ r' = None
    /\ UNCHANGED <<b, fa, fb, parserVars>>

\* `{"k": x}`: an object of one member around a
WrapObject ==
    \E k \in {"a", "b"} :
        /\ Step
        /\ a' = VObject([j \in {k} |-> [vals |-> <<a>>, missing |-> FALSE]])
        /\ r' = None
        /\ UNCHANGED <<b, fa, fb, parserVars>>

\* one more element parsed into the array a (lines 327-339, 347-348)
ArrayElement ==
    /\ Step /\ fa /\ fb /\ a.t = "Array"
    /\ \E values \in MergeValue(a.vals, b) :
          a' = VArray(values, a.min + 1, a.max + 1)
    /\ r' = None
    /\ UNCHANGED <<b, fa, fb, parserVars>>

\* one more member parsed into the object a (lines 304-311)
ObjectMember ==
    \E k \in {"a", "b"} :
        /\ Step /\ fa /\ fb /\ a.t = "Object"
        /\ k \notin DOMAIN a.pairs
        /\ a' = VObject([j \in DOMAIN a.pairs \cup {k} |->
                            IF j = k THEN [vals |-> <<b>>, missing |-> FALSE]
                            ELSE a.pairs[j]])
        /\ r' = None
        /\ UNCHANGED <<b, fa, fb, parserVars>>

NextMerge ==
    \/ Merge
    \/ KeepSelf
    \/ KeepOther
    \/ Swap
    \/ Clone
    \/ WrapArray
    \/ WrapObject
    \/ ArrayElement
    \/ ObjectMember

SpecMerge == InitMerge /\ [][NextMerge]_vars

-----------------------------------------------------------------------------
(* Auxiliary definitions for the properties *)

Alternatives(v) ==
    CASE v.t = "Array" -> {v.vals}
      [] v.t = "Object" -> {v.pairs[k].vals : k \in DOMAIN v.pairs}
      [] OTHER -> {}

RECURSIVE SubNodes(_)
\* v and every node nested in it
SubNodes(v) ==
    IF v.t \in {"None", "Err", "Panic"} THEN {}
    ELSE {v} \cup UNION {UNION {SubNodes(list[i]) : i \in 1..Len(list)} :
                            list \in Alternatives(v)}

BenchNodes == SubNodes(a) \cup SubNodes(b) \cup SubNodes(r)

ParserNodes == SubNodes(ret) \cup UNION {SubNodes(stack[i].value) : i \in 1..Len(stack)}

Last(seq) == seq[Len(seq)]

\* token-level JSON grammar, independent of the parser: ctx is the stack of
\* open containers, exp what may come next
GAfterValue(ctx) ==
    [ctx |-> ctx, exp |-> IF ctx = <<>> THEN "end" ELSE "comma_or_close"]

GClose(ctx) == GAfterValue(SubSeq(ctx, 1, Len(ctx) - 1))

GStep(g, tok) ==
    LET bad == [ctx |-> <<>>, exp |-> "bad"]
        top == IF g.ctx = <<>> THEN "" ELSE g.ctx[Len(g.ctx)]
    IN  CASE g.exp \in {"value", "value_or_close"}
                /\ tok.kind \in {"String", "Number", "Boolean", "Null"} ->
                    GAfterValue(g.ctx)
          [] g.exp \in {"value", "value_or_close"} /\ tok.kind = "CurlyOpen" ->
                    [ctx |-> Append(g.ctx, "O"), exp |-> "key_or_close"]
          [] g.exp \in {"value", "value_or_close"} /\ tok.kind = "BracketOpen" ->
                    [ctx |-> Append(g.ctx, "A"), exp |-> "value_or_close"]
          [] g.exp = "value_or_close" /\ tok.kind = "BracketClose" -> GClose(g.ctx)
          [] g.exp = "key_or_close" /\ tok.kind = "CurlyClose" -> GClose(g.ctx)
          [] g.exp \in {"key", "key_or_close"} /\ tok.kind = "String" ->
                    [g EXCEPT !.exp = "colon"]
          [] g.exp = "colon" /\ tok.kind = "Colon" -> [g EXCEPT !.exp = "value"]
          [] g.exp = "comma_or_close" /\ tok.kind = "Comma" ->
                    [g EXCEPT !.exp = IF top = "O" THEN "key" ELSE "value"]
          [] g.exp = "comma_or_close" /\ tok.kind = "CurlyClose" /\ top = "O" ->
                    GClose(g.ctx)
          [] g.exp = "comma_or_close" /\ tok.kind = "BracketClose" /\ top = "A" ->
                    GClose(g.ctx)
          [] OTHER -> bad

RECURSIVE GRun(_, _)
GRun(g, tokens) ==
    IF tokens = <<>> THEN g ELSE GRun(GStep(g, Head(tokens)), Tail(tokens))

Grammar(tokens) == GRun([ctx |-> <<>>, exp |-> "value"], tokens)

\* tokens is exactly one well-formed JSON value
WellFormed(tokens) == Grammar(tokens).exp = "end"
\* tokens can be continued to a well-formed JSON value
ViablePrefix(tokens) == Grammar(tokens).exp # "bad"

IsOpen(tok) == tok.kind \in {"CurlyOpen", "BracketOpen"}
IsClose(tok) == tok.kind \in {"CurlyClose", "BracketClose"}

\* containers opened and not closed within tokens[i..j]
Nesting(tokens, i, j) ==
    Cardinality({m \in i..j : IsOpen(tokens[m])})
    - Cardinality({m \in i..j : IsClose(tokens[m])})

\* position of the opening token of the container that tokens' last token closes
MatchingOpen(tokens) ==
    CHOOSE i \in 1..Len(tokens) :
        /\ Nesting(tokens, i, Len(tokens)) = 0
        /\ \A j \in (i + 1)..Len(tokens) : Nesting(tokens, j, Len(tokens)) # 0

\* position of the opening token of the innermost container still open
InnermostOpen(tokens) ==
    CHOOSE i \in 1..Len(tokens) :
        /\ Nesting(tokens, i, Len(tokens)) = 1
        /\ \A j \in (i + 1)..Len(tokens) : Nesting(tokens, j, Len(tokens)) # 1

\* number of elements written between the brackets of the array just closed
ElementCount(tokens) ==
    LET open == MatchingOpen(tokens)
    IN  IF open + 1 = Len(tokens) THEN 0
        ELSE 1 + Cardinality({m \in (open + 1)..(Len(tokens) - 1) :
                                 /\ tokens[m].kind = "Comma"
                                 /\ Nesting(tokens, open, m) = 1})

\* positions of the keys written so far in the innermost open object
KeyPositions(tokens) ==
    LET open == InnermostOpen(tokens)
    IN  {m \in (open + 1)..Len(tokens) :
            /\ tokens[m].kind = "String"
            /\ tokens[m - 1].kind \in {"CurlyOpen", "Comma"}
            /\ Nesting(tokens, open, m) = 1}

\* some key is written twice in the innermost open object
DuplicateKey(tokens) ==
    \E m, n \in KeyPositions(tokens) : m # n /\ tokens[m].s = tokens[n].s

-----------------------------------------------------------------------------
(* Properties of merge_with, checked under SpecMerge *)

\* C1: for same-variant operands merge_with(a, b) and merge_with(b, a) both
\* succeed and every result of the one renders as every result of the other.
C1_MergeCommutes ==
    (r # None /\ a.t = b.t) =>
        /\ r # Err
        /\ \A r2 \in merge_with(b, a) : r2 # Err /\ Render(r2) = Render(r)

\* C2: a merged scalar holds at most MAX_EXAMPLES examples, and it is
\* truncated whenever the operands hold more than MAX_EXAMPLES distinct
\* literals together or either operand is truncated.
C2_CapAndTruncation ==
    (Ok(r) /\ IsScalar(a) /\ a.t = b.t) =>
        /\ Cardinality(r.ex) <= MAX_EXAMPLES
        /\ (Cardinality(a.ex \cup b.ex) > MAX_EXAMPLES \/ a.more \/ b.more) => r.more

\* C3: in a merged object a key is optional exactly if it is missing from a
\* or from b, or optional in a or optional in b.
C3_OptionalIsOr ==
    (Ok(r) /\ a.t = "Object" /\ b.t = "Object") =>
        \A k \in DOMAIN r.pairs :
            r.pairs[k].missing =
                (\/ k \notin DOMAIN a.pairs
                 \/ k \notin DOMAIN b.pairs
                 \/ a.pairs[k].missing
                 \/ b.pairs[k].missing)

\* C5: the text rendered for a merge is a function of its operands: every
\* iteration order of the example sets gives the same text.
C5_RenderingDeterministic ==
    Ok(r) => \A r2 \in merge_with(a, b) : r2 # Err /\ Render(r2) = Render(r)

\* C7: merging a node with itself succeeds and gives the node back, with
\* the same examples, flags, alternatives and ranges, hence the same text.
C7_MergeIdempotent ==
    /\ \A x \in BenchNodes : merge_with(x, x) = {x}
    /\ (r # None /\ a = b) => (r = a /\ Render(r) = Render(a))

\* a truncated example set inside an array has been merged with itself
C7_Witness ==
    /\ a = b /\ r = a /\ r.t = "Array"
    /\ \E i \in 1..Len(r.vals) : IsScalar(r.vals[i]) /\ r.vals[i].more

AlternativeCounts(v) ==
    CASE v.t = "Array" -> <<Len(v.vals)>>
      [] v.t = "Object" -> [k \in DOMAIN v.pairs |-> Len(v.pairs[k].vals)]
      [] OTHER -> <<>>

\* C9: no two alternatives of a list are mergeable (they differ in variant),
\* so a list holds at most 6, and merging in the other order gives lists of
\* the same lengths.
C9_AlternativesUnmergeable ==
    /\ \A x \in BenchNodes : \A list \in Alternatives(x) :
          /\ Len(list) <= 6
          /\ \A i, j \in 1..Len(list) :
                i # j => (list[i].t # list[j].t /\ merge_with(list[i], list[j]) = {Err})
    /\ (Ok(r) /\ a.t = b.t) =>
          \A r2 \in merge_with(b, a) : AlternativeCounts(r2) = AlternativeCounts(r)

\* a key present on both sides has been merged into two alternatives
C9_Witness ==
    /\ Ok(r) /\ r.t = "Object" /\ a.t = "Object" /\ b.t = "Object"
    /\ \E k \in DOMAIN a.pairs \cap DOMAIN b.pairs : Len(r.pairs[k].vals) >= 2

-----------------------------------------------------------------------------
(* Properties of the parser, checked under Spec *)

\* C4: the schema is printed only if the input is exactly one well-formed
\* JSON value with no token after it; an invalid sequence panics and
\* prints nothing.
C4_OnlyOneWellFormedValue ==
    /\ status = "done" => (WellFormed(consumed) /\ ~leftover)
    /\ status = "running" => ViablePrefix(consumed)
    /\ status = "panic" => out = ""

\* C6, merge_with: Err exactly for operands of different variants (a panic
\* leaves the nodes as they were in the state before it)
C6_MismatchIffVariantsDiffer ==
    status # "panic" =>
        \A x, y \in ParserNodes :
            IF x.t = y.t THEN Err \notin merge_with(x, y)
            ELSE merge_with(x, y) = {Err}

\* C6, caller: an element that matches no alternative is appended and the
\* parser goes on
C6_MismatchKeepsParsing ==
    (/\ status = "running" /\ ret # None /\ InArray
     /\ \A i \in 1..Len(Top.value.vals) : Top.value.vals[i].t # ret.t)
    => /\ status' = "running"
       /\ Len(stack') = Len(stack)
       /\ stack'[Len(stack)].value.vals = Append(Top.value.vals, ret)

\* C6: merge_with fails if and only if the variants differ, and a failed
\* merge never panics: the value is kept as a further alternative.
C6_MismatchIsNotAnError ==
    [](C6_MismatchIffVariantsDiffer) /\ [][C6_MismatchKeepsParsing]_vars

\* an array has kept two unmergeable elements and parsing goes on
C6_Witness ==
    /\ status = "running" /\ InArray /\ Top.pc = "next"
    /\ Len(Top.value.vals) >= 2

\* C8, parse: a parsed array has min = max = number of elements written
C8_FreshLength ==
    (ret # None /\ ret.t = "Array") =>
        (ret.min = ElementCount(consumed) /\ ret.max = ElementCount(consumed))

\* C8, invariant: min <= max in every array node
C8_Ordered ==
    \A x \in ParserNodes : x.t = "Array" => x.min <= x.max

\* C8, merge: [m1,M1] merged with [m2,M2] is [min(m1,m2), max(M1,M2)]
C8_MergedRange ==
    (/\ status = "running" /\ ret # None /\ ret.t = "Array" /\ InArray
     /\ \E i \in 1..Len(Top.value.vals) : Top.value.vals[i].t = "Array")
    => LET i == CHOOSE j \in 1..Len(Top.value.vals) : Top.value.vals[j].t = "Array"
           old == Top.value.vals[i]
           new == stack'[Len(stack)].value.vals[i]
       IN  /\ new.t = "Array"
           /\ new.min = Min(old.min, ret.min)
           /\ new.max = Max(old.max, ret.max)

\* C8: a parsed array has min = max = its element count, a merge of two
\* arrays has the least min and the greatest max, and min <= max always.
C8_ArrayLengthRange ==
    [](C8_FreshLength /\ C8_Ordered) /\ [][C8_MergedRange]_vars

\* two sibling arrays of different lengths have been merged
C8_Witness ==
    /\ status = "running" /\ InArray
    /\ \E i \in 1..Len(Top.value.vals) :
          Top.value.vals[i].t = "Array" /\ Top.value.vals[i].min < Top.value.vals[i].max

\* the last token is a key of the object being built that is already in it
RepeatedKeyPulled ==
    /\ InObject /\ ret = None /\ Len(consumed) >= 2
    /\ Last(consumed).kind = "String"
    /\ consumed[Len(consumed) - 1].kind \in {"CurlyOpen", "Comma"}
    /\ StripQuotes(Last(consumed).s) \in DOMAIN Top.value.pairs

\* C10, state: a live parser has seen no key twice in the open object, a
\* repeated key has panicked, and parsed objects have single, present fields
C10_State ==
    /\ (status # "panic" /\ InObject) => ~DuplicateKey(consumed)
    /\ RepeatedKeyPulled => status = "panic"
    /\ \A x \in {ret} \cup {stack[i].value : i \in 1..Len(stack)} :
          x.t = "Object" =>
              \A k \in DOMAIN x.pairs :
                  Len(x.pairs[k].vals) = 1 /\ ~x.pairs[k].missing

\* C10, step: the panic comes with the key token, nothing else changes;
\* an object element of an array merges into the object alternative
C10_Step ==
    /\ (RepeatedKeyPulled' /\ consumed' # consumed) =>
          (status' = "panic" /\ stack' = stack /\ ret' = ret)
    /\ (/\ status = "running" /\ ret # None /\ ret.t = "Object" /\ InArray
        /\ \E i \in 1..Len(Top.value.vals) : Top.value.vals[i].t = "Object")
       => LET i == CHOOSE j \in 1..Len(Top.value.vals) : Top.value.vals[j].t = "Object"
              old == Top.value.vals[i]
              new == stack'[Len(stack)].value.vals[i]
          IN  /\ status' = "running"
              /\ Len(stack'[Len(stack)].value.vals) = Len(Top.value.vals)
              /\ DOMAIN new.pairs = DOMAIN old.pairs \cup DOMAIN ret.pairs

C10_SiblingsMerged ==
    /\ status = "running" /\ InArray
    /\ Top.n = 2 /\ Len(Top.value.vals) = 1
    /\ Top.value.vals[1].t = "Object"
    /\ "a" \in DOMAIN Top.value.vals[1].pairs
    /\ Len(Top.value.vals[1].pairs["a"].vals) = 1

====
